---- MODULE Spec2Model ----
(***************************************************************************)
(* The server of the collaborative drawing canvas: the operation log kept  *)
(* by DrawingStateManager (src/server/drawing-state.js) and the socket     *)
(* handlers that drive it (src/unnamed/part_000, the server's server.js);  *)
(* and its clients: the canvas of each (src/client/canvas.js), the         *)
(* application that binds it to the socket (src/client/main.js) and the    *)
(* socket client (client/websocket.js, as listed in src/README.md).        *)
(*                                                                         *)
(* Indexes are the JavaScript ones: the cursor currentStateIndex runs from *)
(* -1 to operations.length - 1, and the entry at JavaScript index i is     *)
(* operations[i + 1] of the TLA+ sequence.                                 *)
(*                                                                         *)
(* A value that may be undefined is a sequence of length 0 (undefined) or  *)
(* 1 (the value): a handler's payload, a conflict, a result's operation.   *)
(***************************************************************************)
EXTENDS Integers, Sequences, FiniteSets, TLC

VARIABLES
  operations,           \* DrawingStateManager.operations
  currentStateIndex,    \* DrawingStateManager.currentStateIndex
  operationTimestamps,  \* DrawingStateManager.operationTimestamps (Map id -> timestamp)
  userOperations,       \* DrawingStateManager.userOperations (Map userId -> list)
  connectedUsers,       \* server.js connectedUsers: the ids of the connected sockets
  now,                  \* the server's clock, what Date.now() returns
  emitted,              \* the messages the handler that ran last has emitted, in order
  last,                 \* the handler that ran last: its payload, the log before it, what the manager returned
  canvasManager,        \* per client, main.js canvasManager: the pixels, layers, currentLayerIndex
  wsClient,             \* per client, main.js wsClient: userId, operationId, pending and acknowledged operations
  toServer,             \* per client, the messages its socket has sent that the server has not handled yet
  toClient              \* per client, the messages the server has sent it that it has not handled yet

clientVars == <<canvasManager, wsClient, toServer, toClient>>

vars == <<operations, currentStateIndex, operationTimestamps, userOperations,
          connectedUsers, now, emitted, last, clientVars>>

(***************************************************************************)
(* Bounds of the model.                                                    *)
(***************************************************************************)
\* The number of gestures (a stroke, an undo, a redo, a clear) the
\* participants make altogether, when the clients are modelled.
MaxGestures == 3

\* The retention bound of the log. The source sets it to 500
\* (drawing-state.js line 4); the model keeps the code that enforces it and
\* scales the number, so that evictions are reached.
maxOperations == 2

\* userOperations grows with every accepted operation until the next clear;
\* the draw-path handler of the model stops accepting input at this many.
MaxUserOps == 3

(***************************************************************************)
(* Values.                                                                 *)
(***************************************************************************)
Sockets == {"s1", "s2"}
UserIds == {"A", "B"}

\* An id is a number (WebSocketClient.operationId++), the string
\* `clear_${Date.now()}` of the synthetic clear operation, or undefined.
IdNum(n) == <<"num", n>>
IdClear(t) == <<"clear", t>>
IdUndefined == <<"undefined", 0>>

UndefinedStr == "<undefined>"
UndefinedNum == 0 - 1

\* JavaScript's !v for a string and for a number that may be undefined.
FalsyStr(s) == s \in {UndefinedStr, ""}
FalsyNum(n) == n \in {UndefinedNum, 0}

ServerTimes == {150, 250}

Operation(id, userId, type, timestamp) ==
  [id |-> id, userId |-> userId, type |-> type, timestamp |-> timestamp]

\* What a client's emitPath sends: two users whose ids collide and whose
\* timestamps are equal, and an operation that comes without a timestamp.
ValidDraws ==
  { Operation(IdNum(0), "A", "draw", 100),
    Operation(IdNum(0), "B", "draw", 100),
    Operation(IdNum(1), "A", "draw", UndefinedNum) }

\* Operations addOperation rejects: a field missing, an empty userId.
MalformedDraws ==
  { Operation(IdUndefined, "A", "draw", 100),
    Operation(IdNum(0), UndefinedStr, "draw", 100),
    Operation(IdNum(0), "", "draw", 100),
    Operation(IdNum(0), "A", UndefinedStr, 100) }

DrawPayloads == {<<>>} \cup { <<op>> : op \in ValidDraws \cup MalformedDraws }

\* What emitUndo and emitRedo send, a history-event of another type, and no payload.
HistoryPayloads ==
  {<<>>} \cup { <<Operation(IdNum(0), u, t, 100)>> : u \in UserIds, t \in {"undo", "redo"} }
         \cup { <<Operation(IdNum(0), "A", "draw", 100)>> }

\* What emitClear sends, and no payload.
ClearPayloads == {<<>>, <<Operation(IdNum(0), "A", "clear", 100)>>}

(***************************************************************************)
(* Array and Map helpers.                                                  *)
(***************************************************************************)
\* Array.prototype.slice(from, to) for 0 <= from <= to.
slice(arr, from, to) ==
  SubSeq(arr, from + 1, IF to < Len(arr) THEN to ELSE Len(arr))

\* arr[i] with a JavaScript index.
At(arr, i) == arr[i + 1]

\* Array.prototype.shift(): the array without its first element.
shift(arr) == SubSeq(arr, 2, Len(arr))

MapHas(m, k) == k \in DOMAIN m
MapSet(m, k, v) == [x \in DOMAIN m \cup {k} |-> IF x = k THEN v ELSE m[x]]
MapDelete(m, k) == [x \in DOMAIN m \ {k} |-> m[x]]
EmptyMap == [x \in {} |-> 0]

\* The fields of a DrawingStateManager as one value.
Manager(ops, idx, stamps, byUser) ==
  [operations |-> ops, currentStateIndex |-> idx,
   operationTimestamps |-> stamps, userOperations |-> byUser]

This == Manager(operations, currentStateIndex, operationTimestamps, userOperations)

(***************************************************************************)
(* DrawingStateManager (src/server/drawing-state.js).  A method that       *)
(* changes the manager is an operator from the manager before the call to  *)
(* the manager after it and the value returned.                            *)
(***************************************************************************)
Abs(n) == IF n < 0 THEN 0 - n ELSE n

timeWindow == 100

getActiveOperations(this) ==
  slice(this.operations, 0, this.currentStateIndex + 1)

\* Mutant of getCanvasState: the whole sequence instead of the active prefix.
getCanvasStateWholeLog(this, dateNow) ==
  [operations |-> this.operations,
   currentIndex |-> this.currentStateIndex,
   timestamp |-> dateNow]

getCanvasState(this, dateNow) ==
  [operations |-> getActiveOperations(this),
   currentIndex |-> this.currentStateIndex,
   timestamp |-> dateNow]

\* The last entry of another user within the time window, or null (<<>>).
\* Mutant of detectConflict: an entry exactly timeWindow apart counts.
detectConflictInclusive(this, newOperation) ==
  LET recentOps == SelectSeq(this.operations,
                     LAMBDA op : /\ Abs(op.timestamp - newOperation.timestamp) <= timeWindow
                                 /\ op.userId # newOperation.userId)
  IN IF Len(recentOps) > 0 THEN <<recentOps[Len(recentOps)]>> ELSE <<>>

detectConflict(this, newOperation) ==
  LET recentOps == SelectSeq(this.operations,
                     LAMBDA op : /\ Abs(op.timestamp - newOperation.timestamp) < timeWindow
                                 /\ op.userId # newOperation.userId)
  IN IF Len(recentOps) > 0 THEN <<recentOps[Len(recentOps)]>> ELSE <<>>

\* Mutant of resolveConflict: the operation with the earlier timestamp wins.
resolveConflictEarlierWins(newOperation, conflictingOperation) ==
  IF newOperation.timestamp < conflictingOperation.timestamp
  THEN newOperation
  ELSE conflictingOperation

\* Only logs which of the two has priority.
resolveConflict(newOperation, conflictingOperation) == newOperation

\* Mutant of isInvalidOperation: !operation.id, which rejects id 0.
isInvalidOperationFalsyId(operation) ==
  IF operation = <<>> THEN TRUE
  ELSE IF operation[1].id \in {IdUndefined, IdNum(0)} THEN TRUE
  ELSE IF FalsyStr(operation[1].userId) THEN TRUE
  ELSE FalsyStr(operation[1].type)

\* The guard of addOperation: the operation is absent or lacks id, userId or type.
isInvalidOperation(operation) ==
  IF operation = <<>> THEN TRUE
  ELSE IF operation[1].id = IdUndefined THEN TRUE
  ELSE IF FalsyStr(operation[1].userId) THEN TRUE
  ELSE FalsyStr(operation[1].type)

\* Lines 22-24: an operation without a timestamp (or with timestamp 0) gets the server's.
withTimestamp(operation, dateNow) ==
  IF FalsyNum(operation.timestamp)
  THEN [operation EXCEPT !.timestamp = dateNow]
  ELSE operation

\* Mutant of truncateRedo: the redo branch is kept.
truncateRedoKeepsBranch(this) == this

\* Lines 32-34: drop the entries after the cursor.
truncateRedo(this) ==
  IF this.currentStateIndex < Len(this.operations) - 1
  THEN [this EXCEPT !.operations = slice(this.operations, 0, this.currentStateIndex + 1)]
  ELSE this

\* Mutant of pushOperation: the operation is inserted where its timestamp puts it.
pushOperationByTimestamp(this, op) ==
  LET created == IF MapHas(this.userOperations, op.userId)
                 THEN this.userOperations
                 ELSE MapSet(this.userOperations, op.userId, <<>>)
      earlier == SelectSeq(this.operations, LAMBDA o : o.timestamp <= op.timestamp)
      later == SelectSeq(this.operations, LAMBDA o : o.timestamp > op.timestamp)
  IN Manager(earlier \o <<op>> \o later,
             this.currentStateIndex + 1,
             MapSet(this.operationTimestamps, op.id, op.timestamp),
             MapSet(created, op.userId, Append(created[op.userId], op)))

\* Lines 36-43: push, advance the cursor, record the timestamp and the user's operation.
pushOperation(this, op) ==
  LET created == IF MapHas(this.userOperations, op.userId)
                 THEN this.userOperations
                 ELSE MapSet(this.userOperations, op.userId, <<>>)
  IN Manager(Append(this.operations, op),
             this.currentStateIndex + 1,
             MapSet(this.operationTimestamps, op.id, op.timestamp),
             MapSet(created, op.userId, Append(created[op.userId], op)))

\* Mutant of evictOldest: the cursor is not decremented.
evictOldestKeepsCursor(this) ==
  IF Len(this.operations) > maxOperations
  THEN Manager(shift(this.operations),
               this.currentStateIndex,
               MapDelete(this.operationTimestamps, this.operations[1].id),
               this.userOperations)
  ELSE this

\* Mutant of evictOldest: the bound is checked one too late.
evictOldestLate(this) ==
  IF Len(this.operations) > maxOperations + 1
  THEN Manager(shift(this.operations),
               this.currentStateIndex - 1,
               MapDelete(this.operationTimestamps, this.operations[1].id),
               this.userOperations)
  ELSE this

\* Mutant of evictOldest: pop() instead of shift(), the newest entry goes.
evictNewest(this) ==
  IF Len(this.operations) > maxOperations
  THEN Manager(SubSeq(this.operations, 1, Len(this.operations) - 1),
               this.currentStateIndex - 1,
               MapDelete(this.operationTimestamps,
                         this.operations[Len(this.operations)].id),
               this.userOperations)
  ELSE this

\* Lines 45-49: past maxOperations, remove the oldest entry.
evictOldest(this) ==
  IF Len(this.operations) > maxOperations
  THEN Manager(shift(this.operations),
               this.currentStateIndex - 1,
               MapDelete(this.operationTimestamps, this.operations[1].id),
               this.userOperations)
  ELSE this

\* Returns the manager after the call, the boolean returned, and the operation
\* object as the call leaves it (the caller's object is stamped in place).
addOperation(this, operation, dateNow) ==
  IF isInvalidOperation(operation)
  THEN [this |-> this, ret |-> FALSE, operation |-> operation]
  ELSE
    LET stamped == withTimestamp(operation[1], dateNow)
        conflict == detectConflict(this, stamped)
        op == IF conflict # <<>> THEN resolveConflict(stamped, conflict[1]) ELSE stamped
    IN [this |-> evictOldest(pushOperation(truncateRedo(this), op)),
        ret |-> TRUE,
        operation |-> <<op>>]

\* Mutant of globalUndo: the undone entry is removed from the sequence.
globalUndoPops(this) ==
  IF this.currentStateIndex >= 0
  THEN LET undoneOperation == At(this.operations, this.currentStateIndex)
           after == [this EXCEPT
                       !.operations = slice(this.operations, 0, this.currentStateIndex),
                       !.currentStateIndex = this.currentStateIndex - 1]
       IN [this |-> after,
           ret |-> [success |-> TRUE,
                    operation |-> undoneOperation,
                    remainingOperations |-> getActiveOperations(after)]]
  ELSE [this |-> this, ret |-> [success |-> FALSE]]

globalUndo(this) ==
  IF this.currentStateIndex >= 0
  THEN LET undoneOperation == At(this.operations, this.currentStateIndex)
           after == [this EXCEPT !.currentStateIndex = this.currentStateIndex - 1]
       IN [this |-> after,
           ret |-> [success |-> TRUE,
                    operation |-> undoneOperation,
                    remainingOperations |-> getActiveOperations(after)]]
  ELSE [this |-> this, ret |-> [success |-> FALSE]]

\* Mutant of globalRedo: the cursor is not advanced.
globalRedoStays(this) ==
  IF this.currentStateIndex < Len(this.operations) - 1
  THEN [this |-> this,
        ret |-> [success |-> TRUE,
                 operation |-> At(this.operations, this.currentStateIndex + 1),
                 remainingOperations |->
                   slice(this.operations, 0, this.currentStateIndex + 2)]]
  ELSE [this |-> this, ret |-> [success |-> FALSE]]

\* Mutant of globalRedo: redo goes to the end of the sequence.
globalRedoToEnd(this) ==
  IF this.currentStateIndex < Len(this.operations) - 1
  THEN LET after == [this EXCEPT !.currentStateIndex = Len(this.operations) - 1]
       IN [this |-> after,
           ret |-> [success |-> TRUE,
                    operation |-> At(after.operations, after.currentStateIndex),
                    remainingOperations |-> getActiveOperations(after)]]
  ELSE [this |-> this, ret |-> [success |-> FALSE]]

globalRedo(this) ==
  IF this.currentStateIndex < Len(this.operations) - 1
  THEN LET after == [this EXCEPT !.currentStateIndex = this.currentStateIndex + 1]
           redoneOperation == At(after.operations, after.currentStateIndex)
       IN [this |-> after,
           ret |-> [success |-> TRUE,
                    operation |-> redoneOperation,
                    remainingOperations |-> getActiveOperations(after)]]
  ELSE [this |-> this, ret |-> [success |-> FALSE]]

\* Mutant of clear: the clear operation is pushed, the history is kept.
clearKeepsHistory(this, dateNow) ==
  LET clearOperation == Operation(IdClear(dateNow), "system", "clear", dateNow)
  IN [this |-> Manager(Append(this.operations, clearOperation),
                       Len(this.operations), EmptyMap, EmptyMap),
      ret |-> clearOperation]

\* Mutant of clear: the per-user index is kept.
clearKeepsUsers(this, dateNow) ==
  LET clearOperation == Operation(IdClear(dateNow), "system", "clear", dateNow)
  IN [this |-> Manager(<<clearOperation>>, 0, EmptyMap, this.userOperations),
      ret |-> clearOperation]

\* Mutant of clear: the clear operation goes in front of the old entries.
clearKeepsForRedo(this, dateNow) ==
  LET clearOperation == Operation(IdClear(dateNow), "system", "clear", dateNow)
  IN [this |-> Manager(<<clearOperation>> \o this.operations, 0, EmptyMap, EmptyMap),
      ret |-> clearOperation]

clear(this, dateNow) ==
  LET clearOperation == Operation(IdClear(dateNow), "system", "clear", dateNow)
  IN [this |-> Manager(<<clearOperation>>, 0, EmptyMap, EmptyMap),
      ret |-> clearOperation]

\* Mutant of getStats: canUndo as the client's canUndo computes it.
getStatsCanUndoPositive(this) ==
  [totalOperations |-> Len(this.operations),
   currentIndex |-> this.currentStateIndex,
   activeUsers |-> Cardinality(DOMAIN this.userOperations),
   canUndo |-> this.currentStateIndex > 0,
   canRedo |-> this.currentStateIndex < Len(this.operations) - 1]

getStats(this) ==
  [totalOperations |-> Len(this.operations),
   currentIndex |-> this.currentStateIndex,
   activeUsers |-> Cardinality(DOMAIN this.userOperations),
   canUndo |-> this.currentStateIndex >= 0,
   canRedo |-> this.currentStateIndex < Len(this.operations) - 1]

(***************************************************************************)
(* The socket handlers of the server (src/unnamed/part_000).  Each handler *)
(* runs to completion; a handler exists for a socket from its connection   *)
(* to its disconnection.                                                   *)
(***************************************************************************)
Msg(event, to, data) == [event |-> event, to |-> to, data |-> data]

\* io.emit reaches every connected socket, socket.broadcast.emit every one
\* but the sender, socket.emit the sender.
ToAll(connected) == connected
ToOthers(connected, socket) == connected \ {socket}
ToSender(socket) == {socket}

\* The record of a handler's run: the manager before it, the manager method
\* it called ("none" when it called none), what that returned, and whether
\* the handler's try block threw.
Call(handler, socket, payload, called, ret, threw) ==
  [handler |-> handler, socket |-> socket, payload |-> payload,
   pre |-> This, called |-> called, ret |-> ret, threw |-> threw]

\* The manager is `this` to begin with.
Install0(this) ==
  /\ operations = this.operations
  /\ currentStateIndex = this.currentStateIndex
  /\ operationTimestamps = this.operationTimestamps
  /\ userOperations = this.userOperations

Install(this) ==
  /\ operations' = this.operations
  /\ currentStateIndex' = this.currentStateIndex
  /\ operationTimestamps' = this.operationTimestamps
  /\ userOperations' = this.userOperations

RECURSIVE SumLen(_, _)
SumLen(m, keys) ==
  IF keys = {} THEN 0
  ELSE LET k == CHOOSE x \in keys : TRUE
       IN Len(m[k]) + SumLen(m, keys \ {k})

\* The number of entries the per-user index holds.
UserOpsCount(byUser) == SumLen(byUser, DOMAIN byUser)

Batches == { <<[userId |-> "A", timestamp |-> 100]>> }

\* The userId a client generated for itself (websocket.js generateUserId).
UserOf(socket) == IF socket = "s1" THEN "A" ELSE "B"

\* A client as its constructors leave it: CanvasManager has saved the blank
\* canvas as layer 0, WebSocketClient has sent nothing.  The pixels are the
\* strokes painted since the canvas was last blank, in the order painted.
ClientsInit ==
  /\ canvasManager = [c \in Sockets |->
                       [pixels |-> <<>>, layers |-> << <<>> >>, currentLayerIndex |-> 0]]
  /\ wsClient = [c \in Sockets |->
                  [userId |-> UserOf(c), operationId |-> 0,
                   pendingOperations |-> <<>>, acknowledgedOperations |-> <<>>]]
  /\ toServer = [c \in Sockets |-> <<>>]
  /\ toClient = [c \in Sockets |-> <<>>]

Init ==
  /\ ClientsInit
  /\ operations = <<>>
  /\ currentStateIndex = 0 - 1
  /\ operationTimestamps = EmptyMap
  /\ userOperations = EmptyMap
  /\ connectedUsers = {}
  /\ now \in ServerTimes
  /\ emitted = <<>>
  /\ last = [handler |-> "none", socket |-> "", payload |-> <<>>,
             pre |-> Manager(<<>>, 0 - 1, EmptyMap, EmptyMap),
             called |-> "none", ret |-> FALSE, threw |-> FALSE]

\* Date.now() does not decrease.
Tick ==
  /\ \E t \in ServerTimes : t > now /\ now' = t
  /\ UNCHANGED <<operations, currentStateIndex, operationTimestamps, userOperations,
                 connectedUsers, emitted, last>>

Connection(socket) ==
  /\ socket \notin connectedUsers
  /\ connectedUsers' = connectedUsers \cup {socket}
  /\ emitted' = << Msg("user-count", ToAll(connectedUsers'), Cardinality(connectedUsers')),
                   Msg("canvas-state", ToSender(socket), getCanvasState(This, now)) >>
  /\ last' = Call("connection", socket, <<>>, "getCanvasState", getCanvasState(This, now), FALSE)
  /\ UNCHANGED <<operations, currentStateIndex, operationTimestamps, userOperations, now>>

\* Mutant of drawEmissions: io.emit instead of socket.broadcast.emit.
drawEmissionsToAll(connected, socket, added, operation) ==
  IF added
  THEN << Msg("draw-event", ToAll(connected), operation[1]),
          Msg("operation-ack", ToSender(socket), operation[1].id) >>
  ELSE <<>>

\* Mutant of drawEmissions: io.emit instead of socket.emit for the
\* acknowledgment.
drawEmissionsAckToAll(connected, socket, added, operation) ==
  IF added
  THEN << Msg("draw-event", ToOthers(connected, socket), operation[1]),
          Msg("operation-ack", ToAll(connected), operation[1].id) >>
  ELSE <<>>

\* Lines 52-56: what a draw-path makes the server emit.
drawEmissions(connected, socket, added, operation) ==
  IF added
  THEN << Msg("draw-event", ToOthers(connected, socket), operation[1]),
          Msg("operation-ack", ToSender(socket), operation[1].id) >>
  ELSE <<>>

DrawPath(socket, operation) ==
  /\ socket \in connectedUsers
  /\ IF isInvalidOperation(operation) THEN TRUE
     ELSE UserOpsCount(userOperations) < MaxUserOps
  /\ LET r == addOperation(This, operation, now)
     IN /\ Install(r.this)
        /\ emitted' = drawEmissions(connectedUsers, socket, r.ret, r.operation)
        /\ last' = Call("draw-path", socket, operation, "addOperation", r.ret, FALSE)
  /\ UNCHANGED <<connectedUsers, now>>

DrawBatch(socket, batch) ==
  /\ socket \in connectedUsers
  /\ emitted' = << Msg("draw-batch", ToOthers(connectedUsers, socket), batch) >>
  /\ last' = Call("draw-batch", socket, batch, "none", FALSE, FALSE)
  /\ UNCHANGED <<operations, currentStateIndex, operationTimestamps, userOperations,
                 connectedUsers, now>>

\* Mutant of historyResult: a participant only undoes an operation of their own.
historyResultOwnOnly(this, operation) ==
  IF operation.type = "undo"
  THEN IF this.currentStateIndex >= 0
          /\ At(this.operations, this.currentStateIndex).userId # operation.userId
       THEN [this |-> this, result |-> <<[success |-> FALSE]>>]
       ELSE LET r == globalUndo(this) IN [this |-> r.this, result |-> <<r.ret>>]
  ELSE IF operation.type = "redo"
  THEN LET r == globalRedo(this) IN [this |-> r.this, result |-> <<r.ret>>]
  ELSE [this |-> this, result |-> <<>>]

\* Lines 72-78: the manager after the call and the result, <<>> while undefined.
\* Mutant of historyResult: a history-event of another type cancels the
\* operation that has its id.
historyResultCancels(this, operation) ==
  IF operation.type = "undo"
  THEN LET r == globalUndo(this) IN [this |-> r.this, result |-> <<r.ret>>]
  ELSE IF operation.type = "redo"
  THEN LET r == globalRedo(this) IN [this |-> r.this, result |-> <<r.ret>>]
  ELSE LET kept == SelectSeq(this.operations, LAMBDA op : op.id # operation.id)
       IN [this |-> [this EXCEPT
                       !.operations = kept,
                       !.currentStateIndex =
                          IF @ > Len(kept) - 1 THEN Len(kept) - 1 ELSE @],
           result |-> <<>>]

\* Mutant of historyResult: a history-event of another type is taken for an undo.
historyResultDefaultsToUndo(this, operation) ==
  IF operation.type = "redo"
  THEN LET r == globalRedo(this) IN [this |-> r.this, result |-> <<r.ret>>]
  ELSE LET r == globalUndo(this) IN [this |-> r.this, result |-> <<r.ret>>]

historyResult(this, operation) ==
  IF operation.type = "undo"
  THEN LET r == globalUndo(this) IN [this |-> r.this, result |-> <<r.ret>>]
  ELSE IF operation.type = "redo"
  THEN LET r == globalRedo(this) IN [this |-> r.this, result |-> <<r.ret>>]
  ELSE [this |-> this, result |-> <<>>]

\* Mutant of historyEmissions: the acknowledgment is sent whatever the result.
historyEmissionsAlwaysAck(connected, socket, operation, result, this, dateNow) ==
  IF result # <<>> /\ result[1].success
  THEN << Msg("history-event", ToAll(connected),
              [type |-> operation.type,
               userId |-> operation.userId,
               operation |-> result[1].operation,
               timestamp |-> dateNow]),
          Msg("canvas-state", ToAll(connected), getCanvasState(this, dateNow)),
          Msg("operation-ack", ToSender(socket), operation.id) >>
  ELSE << Msg("operation-ack", ToSender(socket), operation.id) >>

\* Mutant of historyEmissions: the history-event goes to the others only.
historyEmissionsToOthers(connected, socket, operation, result, this, dateNow) ==
  IF result # <<>> /\ result[1].success
  THEN << Msg("history-event", ToOthers(connected, socket),
              [type |-> operation.type,
               userId |-> operation.userId,
               operation |-> result[1].operation,
               timestamp |-> dateNow]),
          Msg("canvas-state", ToAll(connected), getCanvasState(this, dateNow)),
          Msg("operation-ack", ToSender(socket), operation.id) >>
  ELSE <<>>

\* Lines 80-91: what a history-event makes the server emit.
historyEmissions(connected, socket, operation, result, this, dateNow) ==
  IF result # <<>> /\ result[1].success
  THEN << Msg("history-event", ToAll(connected),
              [type |-> operation.type,
               userId |-> operation.userId,
               operation |-> result[1].operation,
               timestamp |-> dateNow]),
          Msg("canvas-state", ToAll(connected), getCanvasState(this, dateNow)),
          Msg("operation-ack", ToSender(socket), operation.id) >>
  ELSE <<>>

HistoryEvent(socket, operation) ==
  /\ socket \in connectedUsers
  /\ IF operation = <<>>
     THEN \* operation.type of undefined throws; the catch logs it
          /\ emitted' = <<>>
          /\ last' = Call("history-event", socket, operation, "none", <<>>, TRUE)
          /\ UNCHANGED <<operations, currentStateIndex, operationTimestamps, userOperations>>
     ELSE LET r == historyResult(This, operation[1])
          IN /\ Install(r.this)
             /\ emitted' = historyEmissions(connectedUsers, socket, operation[1],
                                            r.result, r.this, now)
             /\ last' = Call("history-event", socket, operation,
                             IF operation[1].type = "undo" THEN "globalUndo"
                             ELSE IF operation[1].type = "redo" THEN "globalRedo"
                             ELSE "none",
                             r.result, FALSE)
  /\ UNCHANGED <<connectedUsers, now>>

\* Mutant of clearEmissions: a snapshot is broadcast after the clear event.
clearEmissionsWithState(connected, socket, operation, this, dateNow) ==
  IF operation = <<>>
  THEN <<>>
  ELSE << Msg("clear-canvas", ToAll(connected),
              [userId |-> operation[1].userId, timestamp |-> dateNow]),
          Msg("canvas-state", ToAll(connected), getCanvasState(this, dateNow)),
          Msg("operation-ack", ToSender(socket), operation[1].id) >>

\* Lines 100-105: what a clear-canvas makes the server emit, clear() having
\* run.  Without a payload operation.userId throws before anything is emitted.
clearEmissions(connected, socket, operation, this, dateNow) ==
  IF operation = <<>>
  THEN <<>>
  ELSE << Msg("clear-canvas", ToAll(connected),
              [userId |-> operation[1].userId, timestamp |-> dateNow]),
          Msg("operation-ack", ToSender(socket), operation[1].id) >>

ClearCanvas(socket, operation) ==
  /\ socket \in connectedUsers
  /\ LET r == clear(This, now)
     IN /\ Install(r.this)
        /\ emitted' = clearEmissions(connectedUsers, socket, operation, r.this, now)
        /\ last' = Call("clear-canvas", socket, operation, "clear", r.ret, operation = <<>>)
  /\ UNCHANGED <<connectedUsers, now>>

\* Mutant of RequestState: splice() instead of slice() in getActiveOperations,
\* which takes the active prefix out of the sequence.
RequestStateSplices(socket) ==
  /\ socket \in connectedUsers
  /\ emitted' = << Msg("canvas-state", ToSender(socket), getCanvasState(This, now)) >>
  /\ last' = Call("request-state", socket, <<>>, "getCanvasState", getCanvasState(This, now), FALSE)
  /\ operations' = SubSeq(operations, currentStateIndex + 2, Len(operations))
  /\ UNCHANGED <<currentStateIndex, operationTimestamps, userOperations,
                 connectedUsers, now>>

RequestState(socket) ==
  /\ socket \in connectedUsers
  /\ emitted' = << Msg("canvas-state", ToSender(socket), getCanvasState(This, now)) >>
  /\ last' = Call("request-state", socket, <<>>, "getCanvasState", getCanvasState(This, now), FALSE)
  /\ UNCHANGED <<operations, currentStateIndex, operationTimestamps, userOperations,
                 connectedUsers, now>>

\* Mutant of Disconnect: the canvas is reset when a participant leaves.
DisconnectResets(socket) ==
  /\ socket \in connectedUsers
  /\ connectedUsers' = connectedUsers \ {socket}
  /\ emitted' = << Msg("user-count", ToAll(connectedUsers'), Cardinality(connectedUsers')) >>
  /\ last' = Call("disconnect", socket, <<>>, "none", FALSE, FALSE)
  /\ operations' = <<>>
  /\ currentStateIndex' = 0 - 1
  /\ UNCHANGED <<operationTimestamps, userOperations, now>>

Disconnect(socket) ==
  /\ socket \in connectedUsers
  /\ connectedUsers' = connectedUsers \ {socket}
  /\ emitted' = << Msg("user-count", ToAll(connectedUsers'), Cardinality(connectedUsers')) >>
  /\ last' = Call("disconnect", socket, <<>>, "none", FALSE, FALSE)
  /\ UNCHANGED <<operations, currentStateIndex, operationTimestamps, userOperations, now>>

\* GET /health (lines 28-34): the response carries getStats().
Health ==
  /\ emitted' = <<>>
  /\ last' = Call("health", "", <<>>, "getStats", getStats(This), FALSE)
  /\ UNCHANGED <<operations, currentStateIndex, operationTimestamps, userOperations,
                 connectedUsers, now>>

\* The handlers, over the sockets and the payloads given.
\* The clients are not looked at: a message comes from any socket.
NextOver(sockets, draws, histories, clears) ==
  \/ Tick /\ UNCHANGED clientVars
  \/ Health /\ UNCHANGED clientVars
  \/ \E socket \in sockets : Connection(socket) /\ UNCHANGED clientVars
  \/ \E socket \in sockets, operation \in draws :
       DrawPath(socket, operation) /\ UNCHANGED clientVars
  \/ \E socket \in sockets, batch \in Batches :
       DrawBatch(socket, batch) /\ UNCHANGED clientVars
  \/ \E socket \in sockets, operation \in histories :
       HistoryEvent(socket, operation) /\ UNCHANGED clientVars
  \/ \E socket \in sockets, operation \in clears :
       ClearCanvas(socket, operation) /\ UNCHANGED clientVars
  \/ \E socket \in sockets : RequestState(socket) /\ UNCHANGED clientVars
  \/ \E socket \in sockets : Disconnect(socket) /\ UNCHANGED clientVars

\* One participant's socket and every payload: the log and what the server
\* emits for each message.
Next == NextOver({"s1"}, DrawPayloads, HistoryPayloads, ClearPayloads)

Spec == Init /\ [][Next]_vars

\* Two participants' sockets and few payloads: who is sent what.
NetDraws ==
  { <<>>,
    <<Operation(IdNum(0), "A", "draw", 100)>>,
    <<Operation(IdNum(0), "B", "draw", UndefinedNum)>>,
    <<Operation(IdNum(0), "", "draw", 100)>> }

NetHistories ==
  { <<>>,
    <<Operation(IdNum(1), "A", "undo", 100)>>,
    <<Operation(IdNum(1), "B", "redo", 100)>> }

NetClears == ClearPayloads

NextNet == NextOver(Sockets, NetDraws, NetHistories, NetClears)

SpecNet == Init /\ [][NextNet]_vars

\* One participant's socket, and operations that come with the timestamp 0,
\* with another timestamp and with none.
StampDraws ==
  { <<Operation(IdNum(0), "A", "draw", 0)>>,
    <<Operation(IdNum(1), "B", "draw", UndefinedNum)>>,
    <<Operation(IdNum(2), "A", "draw", 100)>> }

StampHistories == { <<Operation(IdNum(3), "A", "undo", 100)>> }

NextStamp == NextOver({"s1"}, StampDraws, StampHistories, ClearPayloads)

SpecStamp == Init /\ [][NextStamp]_vars

(***************************************************************************)
(* detectConflict on its own: the log is any sequence of accepted          *)
(* operations of two users at times 0, 50 and 100 ms apart, and the        *)
(* method is called with any such operation.                               *)
(***************************************************************************)
DetectOperations ==
  { Operation(IdNum(0), u, "draw", t) : u \in UserIds, t \in {100, 150, 200} }

DetectLogs == UNION { [1..n -> DetectOperations] : n \in 0..maxOperations }

\* The manager after addOperation has accepted the operations given, in order.
RECURSIVE managerAfter(_, _, _)
managerAfter(this, log, dateNow) ==
  IF log = <<>> THEN this
  ELSE managerAfter(addOperation(this, <<Head(log)>>, dateNow).this, Tail(log), dateNow)

InitDetect ==
  /\ ClientsInit
  /\ connectedUsers = {}
  /\ now \in ServerTimes
  /\ emitted = <<>>
  /\ last = [handler |-> "none", socket |-> "", payload |-> <<>>,
             pre |-> Manager(<<>>, 0 - 1, EmptyMap, EmptyMap),
             called |-> "none", ret |-> FALSE, threw |-> FALSE]
  /\ \E log \in DetectLogs :
       Install0(managerAfter(Manager(<<>>, 0 - 1, EmptyMap, EmptyMap), log, now))

\* this.detectConflict(newOperation), as addOperation calls it.
DetectConflict(newOperation) ==
  /\ emitted' = <<>>
  /\ last' = Call("none", "", <<newOperation>>, "detectConflict",
                  detectConflict(This, newOperation), FALSE)
  /\ UNCHANGED <<operations, currentStateIndex, operationTimestamps, userOperations,
                 connectedUsers, now, clientVars>>

NextDetect == \E newOperation \in DetectOperations : DetectConflict(newOperation)

SpecDetect == InitDetect /\ [][NextDetect]_vars

(***************************************************************************)
(* CanvasManager (src/client/canvas.js).  The pixels of a canvas are the   *)
(* strokes painted since it was last blank, in the order painted; a layer  *)
(* (an ImageData) is a copy of the pixels.  A path is a nonempty sequence, *)
(* and every stroke is painted with the pen.                               *)
(***************************************************************************)
maxLayers == 50

saveState(cm) ==
  LET kept == slice(cm.layers, 0, cm.currentLayerIndex + 1) \o <<cm.pixels>>
  IN IF Len(kept) > maxLayers
     THEN [cm EXCEPT !.layers = shift(kept)]
     ELSE [cm EXCEPT !.layers = kept, !.currentLayerIndex = @ + 1]

\* ctx.stroke() of a path, ctx.clearRect() of the whole canvas.
stroke(cm, path) == [cm EXCEPT !.pixels = @ \o <<path>>]
clearRect(cm) == [cm EXCEPT !.pixels = <<>>]

\* startDrawing, draw and stopDrawing of one stroke of the local user: the
\* path is on the canvas when stopDrawing saves the state.
stopDrawing(cm, path) ==
  IF Len(path) > 0 THEN saveState(stroke(cm, path)) ELSE cm

drawPath(cm, path) ==
  IF Len(path) = 0 THEN cm ELSE saveState(stroke(cm, path))

undo(cm) ==
  IF cm.currentLayerIndex > 0
  THEN [cm |-> [cm EXCEPT !.currentLayerIndex = @ - 1,
                          !.pixels = At(cm.layers, cm.currentLayerIndex - 1)],
        ret |-> TRUE]
  ELSE [cm |-> cm, ret |-> FALSE]

redo(cm) ==
  IF cm.currentLayerIndex < Len(cm.layers) - 1
  THEN [cm |-> [cm EXCEPT !.currentLayerIndex = @ + 1,
                          !.pixels = At(cm.layers, cm.currentLayerIndex + 1)],
        ret |-> TRUE]
  ELSE [cm |-> cm, ret |-> FALSE]

\* CanvasManager.clear().
canvasClear(cm) == saveState(clearRect(cm))

\* op.path, or data.path, is there and truthy.
HasPath(op) == IF "path" \in DOMAIN op THEN Len(op.path) > 0 ELSE FALSE

RECURSIVE forEachOperation(_, _)
forEachOperation(cm, ops) ==
  IF ops = <<>> THEN cm
  ELSE LET op == Head(ops)
           after == IF op.type = "draw"
                    THEN IF HasPath(op) THEN drawPath(cm, op.path) ELSE cm
                    ELSE IF op.type = "clear" THEN canvasClear(cm) ELSE cm
       IN forEachOperation(after, Tail(ops))

restoreFromOperations(cm, ops) ==
  forEachOperation(
    saveState([clearRect(cm) EXCEPT !.layers = <<>>, !.currentLayerIndex = 0 - 1]),
    ops)

(***************************************************************************)
(* WebSocketClient (client/websocket.js, listed in src/README.md).         *)
(***************************************************************************)
acknowledgedKept == 100

ToServer(event, data) == [event |-> event, data |-> data]

\* this.operationId++ and this.pendingOperations.push(operation).
pushPending(ws, operation) ==
  [ws EXCEPT !.operationId = @ + 1,
             !.pendingOperations = Append(@, operation)]

emitPath(ws, path, dateNow) ==
  LET operation == [id |-> IdNum(ws.operationId), type |-> "draw",
                    userId |-> ws.userId, path |-> path, timestamp |-> dateNow]
  IN [ws |-> pushPending(ws, operation), msg |-> ToServer("draw-path", operation)]

emitUndo(ws, dateNow) ==
  LET operation == Operation(IdNum(ws.operationId), ws.userId, "undo", dateNow)
  IN [ws |-> pushPending(ws, operation), msg |-> ToServer("history-event", operation)]

emitRedo(ws, dateNow) ==
  LET operation == Operation(IdNum(ws.operationId), ws.userId, "redo", dateNow)
  IN [ws |-> pushPending(ws, operation), msg |-> ToServer("history-event", operation)]

emitClear(ws, dateNow) ==
  LET operation == Operation(IdNum(ws.operationId), ws.userId, "clear", dateNow)
  IN [ws |-> pushPending(ws, operation), msg |-> ToServer("clear-canvas", operation)]

acknowledgeOperation(ws, operationId) ==
  LET found == { i \in 1..Len(ws.pendingOperations) :
                   ws.pendingOperations[i].id = operationId }
  IN IF found = {} THEN ws
     ELSE LET index == CHOOSE i \in found : \A j \in found : i <= j
              acked == Append(ws.acknowledgedOperations, ws.pendingOperations[index])
          IN [ws EXCEPT
                !.pendingOperations = SubSeq(@, 1, index - 1) \o SubSeq(@, index + 1, Len(@)),
                !.acknowledgedOperations =
                   IF Len(acked) > acknowledgedKept THEN shift(acked) ELSE acked]

(***************************************************************************)
(* CollaborativeCanvas (src/client/main.js): what the application does     *)
(* with a message the socket client hands it.                              *)
(***************************************************************************)
handleRemoteDrawEvent(cm, data) ==
  IF HasPath(data) THEN drawPath(cm, data.path) ELSE cm

handleHistoryEvent(cm, data) ==
  IF data.type = "undo" THEN undo(cm).cm
  ELSE IF data.type = "redo" THEN redo(cm).cm
  ELSE cm

handleClearCanvas(cm, data) == canvasClear(cm)

handleCanvasState(cm, state) ==
  IF Len(state.operations) > 0
  THEN restoreFromOperations(cm, state.operations)
  ELSE cm

(***************************************************************************)
(* The clients and the server together.  A socket carries the messages of  *)
(* each direction in the order sent; the server handles one message at a   *)
(* time, and so does each client, in any interleaving.                     *)
(***************************************************************************)
serverVars == <<operations, currentStateIndex, operationTimestamps, userOperations,
                connectedUsers, now, emitted, last>>

\* Both participants are connected and have received the empty snapshot.
InitClients ==
  /\ ClientsInit
  /\ operations = <<>>
  /\ currentStateIndex = 0 - 1
  /\ operationTimestamps = EmptyMap
  /\ userOperations = EmptyMap
  /\ connectedUsers = Sockets
  /\ now \in ServerTimes
  /\ emitted = <<>>
  /\ last = [handler |-> "none", socket |-> "", payload |-> <<>>,
             pre |-> Manager(<<>>, 0 - 1, EmptyMap, EmptyMap),
             called |-> "none", ret |-> FALSE, threw |-> FALSE]

\* The gestures made so far: every one took an operationId.
Gestures == wsClient["s1"].operationId + wsClient["s2"].operationId

\* The client c changes its canvas and emits what `e` holds.
Emits(c, cm, e) ==
  /\ canvasManager' = [canvasManager EXCEPT ![c] = cm]
  /\ wsClient' = [wsClient EXCEPT ![c] = e.ws]
  /\ toServer' = [toServer EXCEPT ![c] = Append(@, e.msg)]
  /\ UNCHANGED <<serverVars, toClient>>

\* mousedown, mousemove, mouseup: a stroke of the local user, of a path of
\* its own, is on the canvas and is emitted.
MouseUp(c) ==
  /\ Gestures < MaxGestures
  /\ LET path == <<wsClient[c].userId, wsClient[c].operationId>>
     IN Emits(c, stopDrawing(canvasManager[c], path), emitPath(wsClient[c], path, now))

\* main.js undo(), redo(), clearCanvas().
ClientUndo(c) ==
  /\ Gestures < MaxGestures
  /\ undo(canvasManager[c]).ret
  /\ Emits(c, undo(canvasManager[c]).cm, emitUndo(wsClient[c], now))

ClientRedo(c) ==
  /\ Gestures < MaxGestures
  /\ redo(canvasManager[c]).ret
  /\ Emits(c, redo(canvasManager[c]).cm, emitRedo(wsClient[c], now))

ClientClearCanvas(c) ==
  /\ Gestures < MaxGestures
  /\ Emits(c, canvasClear(canvasManager[c]), emitClear(wsClient[c], now))

\* The server takes the next message of socket c, of the event given.
FromClient(c, event) ==
  IF toServer[c] = <<>> THEN FALSE ELSE Head(toServer[c]).event = event

\* What the handler emitted is queued for each socket it was sent to.
Routed(c) ==
  /\ toServer' = [toServer EXCEPT ![c] = Tail(@)]
  /\ toClient' = [d \in Sockets |->
                    toClient[d] \o SelectSeq(emitted', LAMBDA m : d \in m.to)]
  /\ UNCHANGED <<canvasManager, wsClient>>

ServerDrawPath(c) ==
  /\ FromClient(c, "draw-path")
  /\ DrawPath(c, <<Head(toServer[c]).data>>)
  /\ Routed(c)

ServerHistoryEvent(c) ==
  /\ FromClient(c, "history-event")
  /\ HistoryEvent(c, <<Head(toServer[c]).data>>)
  /\ Routed(c)

ServerClearCanvas(c) ==
  /\ FromClient(c, "clear-canvas")
  /\ ClearCanvas(c, <<Head(toServer[c]).data>>)
  /\ Routed(c)

\* The client c takes the next message of its socket, of the event given.
FromServer(c, event) ==
  IF toClient[c] = <<>> THEN FALSE ELSE Head(toClient[c]).event = event

\* The listener of client c leaves its canvas as cm and its socket client as ws.
Listened(c, cm, ws) ==
  /\ canvasManager' = [canvasManager EXCEPT ![c] = cm]
  /\ wsClient' = [wsClient EXCEPT ![c] = ws]
  /\ toClient' = [toClient EXCEPT ![c] = Tail(@)]
  /\ UNCHANGED <<serverVars, toServer>>

OnDrawEvent(c) ==
  /\ FromServer(c, "draw-event")
  /\ LET data == Head(toClient[c]).data
     IN Listened(c,
                 IF data.userId # wsClient[c].userId
                 THEN handleRemoteDrawEvent(canvasManager[c], data)
                 ELSE canvasManager[c],
                 wsClient[c])

\* Mutant of OnHistoryEvent: a client skips the history-event of its own undo,
\* as it skips its own draw-event.
OnHistoryEventOfOthers(c) ==
  /\ FromServer(c, "history-event")
  /\ LET data == Head(toClient[c]).data
     IN Listened(c,
                 IF data.userId # wsClient[c].userId
                 THEN handleHistoryEvent(canvasManager[c], data)
                 ELSE canvasManager[c],
                 wsClient[c])

OnHistoryEvent(c) ==
  /\ FromServer(c, "history-event")
  /\ Listened(c, handleHistoryEvent(canvasManager[c], Head(toClient[c]).data), wsClient[c])

OnClearCanvas(c) ==
  /\ FromServer(c, "clear-canvas")
  /\ LET data == Head(toClient[c]).data
     IN Listened(c,
                 IF data.userId # wsClient[c].userId
                 THEN handleClearCanvas(canvasManager[c], data)
                 ELSE canvasManager[c],
                 wsClient[c])

OnCanvasState(c) ==
  /\ FromServer(c, "canvas-state")
  /\ Listened(c, handleCanvasState(canvasManager[c], Head(toClient[c]).data), wsClient[c])

OnOperationAck(c) ==
  /\ FromServer(c, "operation-ack")
  /\ Listened(c, canvasManager[c], acknowledgeOperation(wsClient[c], Head(toClient[c]).data))

NextClients ==
  \/ \E c \in Sockets : MouseUp(c)
  \/ \E c \in Sockets : ClientUndo(c)
  \/ \E c \in Sockets : ClientRedo(c)
  \/ \E c \in Sockets : ClientClearCanvas(c)
  \/ \E c \in Sockets : ServerDrawPath(c)
  \/ \E c \in Sockets : ServerHistoryEvent(c)
  \/ \E c \in Sockets : ServerClearCanvas(c)
  \/ \E c \in Sockets : OnDrawEvent(c)
  \/ \E c \in Sockets : OnHistoryEvent(c)
  \/ \E c \in Sockets : OnClearCanvas(c)
  \/ \E c \in Sockets : OnCanvasState(c)
  \/ \E c \in Sockets : OnOperationAck(c)

SpecClients == InitClients /\ [][NextClients]_vars

\* The server runs the handler of every message a socket brings it, and a
\* client the listener of every message its socket brings it; nobody has to
\* make a gesture.
SpecClientsFair ==
  /\ SpecClients
  /\ \A c \in Sockets :
       /\ WF_vars(ServerDrawPath(c))
       /\ WF_vars(ServerHistoryEvent(c))
       /\ WF_vars(ServerClearCanvas(c))
       /\ WF_vars(OnDrawEvent(c))
       /\ WF_vars(OnHistoryEvent(c))
       /\ WF_vars(OnClearCanvas(c))
       /\ WF_vars(OnCanvasState(c))
       /\ WF_vars(OnOperationAck(c))

(***************************************************************************)
(* Two participants press undo at the same time.  Before that, strokes and *)
(* clears were made one at a time, each handled by the server and by both  *)
(* clients before the next; then each client undoes locally and emits its  *)
(* undo before it receives anything of the other's.                        *)
(***************************************************************************)
SettledGestures ==
  UNION { [1..n -> [c : Sockets, kind : {"draw", "clear"}]] : n \in 1..(MaxGestures - 1) }

\* One gesture of client g.c, handled by the server and by both clients.
settle(st, g, dateNow) ==
  IF g.kind = "draw"
  THEN LET path == <<st.ws[g.c].userId, st.ws[g.c].operationId>>
           e == emitPath(st.ws[g.c], path, dateNow)
           r == addOperation(st.this, <<e.msg.data>>, dateNow)
       IN [this |-> r.this,
           cm |-> [d \in Sockets |->
                     IF d = g.c THEN stopDrawing(st.cm[d], path)
                     ELSE handleRemoteDrawEvent(st.cm[d], r.operation[1])],
           ws |-> [st.ws EXCEPT ![g.c] = acknowledgeOperation(e.ws, e.msg.data.id)]]
  ELSE LET e == emitClear(st.ws[g.c], dateNow)
           r == clear(st.this, dateNow)
       IN [this |-> r.this,
           cm |-> [d \in Sockets |->
                     IF d = g.c THEN canvasClear(st.cm[d])
                     ELSE handleClearCanvas(st.cm[d], [userId |-> e.msg.data.userId])],
           ws |-> [st.ws EXCEPT ![g.c] = acknowledgeOperation(e.ws, e.msg.data.id)]]

RECURSIVE settled(_, _, _)
settled(st, gs, dateNow) ==
  IF gs = <<>> THEN st
  ELSE settled(settle(st, Head(gs), dateNow), Tail(gs), dateNow)

\* The server and the clients as their constructors leave them.
Constructed ==
  [this |-> Manager(<<>>, 0 - 1, EmptyMap, EmptyMap),
   cm |-> [c \in Sockets |->
             [pixels |-> <<>>, layers |-> << <<>> >>, currentLayerIndex |-> 0]],
   ws |-> [c \in Sockets |->
             [userId |-> UserOf(c), operationId |-> 0,
              pendingOperations |-> <<>>, acknowledgedOperations |-> <<>>]]]

InitUndoRace ==
  /\ connectedUsers = Sockets
  /\ now \in ServerTimes
  /\ emitted = <<>>
  /\ last = [handler |-> "none", socket |-> "", payload |-> <<>>,
             pre |-> Manager(<<>>, 0 - 1, EmptyMap, EmptyMap),
             called |-> "none", ret |-> FALSE, threw |-> FALSE]
  /\ \E gs \in SettledGestures :
       LET st == settled(Constructed, gs, now)
       IN /\ Install0(st.this)
          /\ canvasManager = [c \in Sockets |-> undo(st.cm[c]).cm]
          /\ wsClient = [c \in Sockets |-> emitUndo(st.ws[c], now).ws]
          /\ toServer = [c \in Sockets |-> << emitUndo(st.ws[c], now).msg >>]
          /\ toClient = [c \in Sockets |-> <<>>]

NextUndoRace ==
  \/ \E c \in Sockets : ServerHistoryEvent(c)
  \/ \E c \in Sockets : OnHistoryEvent(c)
  \/ \E c \in Sockets : OnCanvasState(c)
  \/ \E c \in Sockets : OnOperationAck(c)

SpecUndoRace == InitUndoRace /\ [][NextUndoRace]_vars


(***************************************************************************)
(* Properties of the operation log.  `last` holds the manager as it was    *)
(* before the handler that ran last (last.pre), so that a property of one  *)
(* call reads: the call made last => its result relates to last.pre.       *)
(***************************************************************************)
Pre == last.pre

\* The entry `stored` is the operation `submitted`, up to the timestamp the
\* server gives an operation that came without one.
IsSubmitted(stored, submitted) ==
  /\ stored.id = submitted.id
  /\ stored.userId = submitted.userId
  /\ stored.type = submitted.type
  /\ ~FalsyNum(submitted.timestamp) => stored.timestamp = submitted.timestamp

\* The handler that ran last called addOperation and it returned true.
Accepted == last.called = "addOperation" /\ last.ret = TRUE

\* ... and the push did, or did not, take the log past maxOperations.
AcceptedEvicting == Accepted /\ Pre.currentStateIndex + 2 > maxOperations
AcceptedNotEvicting == Accepted /\ Pre.currentStateIndex + 2 <= maxOperations

\* The handler that ran last called globalUndo, or globalRedo.
Undone == last.called = "globalUndo"
Redone == last.called = "globalRedo"

\* C1: in every reachable state, -1 <= currentStateIndex < operations.length.
C1_CursorInRange ==
  /\ 0 - 1 <= currentStateIndex
  /\ currentStateIndex < Len(operations)

\* C1 witness: everything has been undone in a full log, the cursor is at -1.
C1_Witness ==
  /\ Undone
  /\ currentStateIndex = 0 - 1
  /\ Len(operations) = maxOperations

\* C2: in every reachable state, operations.length <= maxOperations.
C2_LengthBounded == Len(operations) <= maxOperations

\* C2 witness: an operation was added to a full log, and the log is full again.
C2_Witness ==
  /\ AcceptedEvicting
  /\ Len(Pre.operations) = maxOperations
  /\ Len(operations) = maxOperations

\* C3: after addOperation accepts op at cursor c without eviction, the sequence
\* is the old entries 0..c followed by op, the cursor is at the last index, no
\* entry that was after c is left, and a globalRedo now returns success=false.
C3_AppendTruncates ==
  AcceptedNotEvicting =>
    LET c == Pre.currentStateIndex
    IN /\ Len(operations) = c + 2
       /\ \A i \in 1..(c + 1) : operations[i] = Pre.operations[i]
       /\ IsSubmitted(operations[c + 2], last.payload[1])
       /\ currentStateIndex = Len(operations) - 1
       /\ globalRedo(This).ret.success = FALSE

\* C3 witness: an operation was added while a redo branch existed.
C3_Witness ==
  /\ AcceptedNotEvicting
  /\ Pre.currentStateIndex >= 0
  /\ Pre.currentStateIndex < Len(Pre.operations) - 1

\* C4: when addOperation takes the sequence past maxOperations, exactly the
\* entry at index 0 goes, the cursor is one less than after the push and so
\* points at the new operation, the active operations are the old active
\* operations without the oldest followed by the new one, and the cursor is in range.
C4_EvictionKeepsPosition ==
  AcceptedEvicting =>
    /\ Len(operations) = maxOperations
    /\ \A i \in 1..(maxOperations - 1) : operations[i] = Pre.operations[i + 1]
    /\ IsSubmitted(operations[maxOperations], last.payload[1])
    /\ currentStateIndex = (Pre.currentStateIndex + 1) - 1
    /\ At(operations, currentStateIndex) = operations[Len(operations)]
    /\ getActiveOperations(This) =
         Tail(getActiveOperations(Pre)) \o <<operations[Len(operations)]>>
    /\ 0 - 1 <= currentStateIndex /\ currentStateIndex < Len(operations)

\* C4 witness: an eviction from a log whose two oldest entries differ.
C4_Witness ==
  /\ AcceptedEvicting
  /\ Pre.operations[1] # Pre.operations[2]
  /\ operations[1] = Pre.operations[2]

\* C5: globalUndo at cursor c >= 0 returns success=true and the entry at c,
\* sets the cursor to c-1, returns the entries 0..c-1 as remainingOperations
\* and leaves the operations sequence as it was.
C5_UndoResult ==
  (Undone /\ Pre.currentStateIndex >= 0) =>
    LET c == Pre.currentStateIndex
    IN /\ last.ret[1].success = TRUE
       /\ last.ret[1].operation = Pre.operations[c + 1]
       /\ currentStateIndex = c - 1
       /\ last.ret[1].remainingOperations = SubSeq(Pre.operations, 1, c)
       /\ operations = Pre.operations

\* C5 witness: an undo that leaves an operation active.
C5_Witness ==
  /\ Undone
  /\ Pre.currentStateIndex >= 1
  /\ last.ret[1].remainingOperations # <<>>

\* C6: globalRedo at cursor c < length-1 returns success=true, sets the cursor
\* to c+1, returns the entry at c+1 and the entries 0..c+1, and leaves the
\* operations sequence as it was.
C6_RedoResult ==
  (Redone /\ Pre.currentStateIndex < Len(Pre.operations) - 1) =>
    LET c == Pre.currentStateIndex
    IN /\ last.ret[1].success = TRUE
       /\ currentStateIndex = c + 1
       /\ last.ret[1].operation = Pre.operations[c + 2]
       /\ last.ret[1].remainingOperations = SubSeq(Pre.operations, 1, c + 2)
       /\ operations = Pre.operations

\* C6 witness: a redo from cursor -1 with two undone operations.
C6_Witness ==
  /\ Redone
  /\ Pre.currentStateIndex = 0 - 1
  /\ Len(Pre.operations) >= 2
  /\ currentStateIndex = 0

\* An undo was requested at cursor -1, or a redo at the last index.
AtBoundary ==
  \/ Undone /\ Pre.currentStateIndex = 0 - 1
  \/ Redone /\ Pre.currentStateIndex = Len(Pre.operations) - 1

\* C7: an undo at cursor -1 and a redo at the last index report
\* success=false, change neither the sequence nor the cursor, and the server
\* emits nothing: no history-event, no canvas-state, no operation-ack.
C7_BoundaryNoOp ==
  AtBoundary =>
    /\ last.ret[1].success = FALSE
    /\ operations = Pre.operations
    /\ currentStateIndex = Pre.currentStateIndex
    /\ \A i \in 1..Len(emitted) :
         emitted[i].event \notin {"history-event", "canvas-state", "operation-ack"}
    /\ emitted = <<>>

\* C7 witness: an undo refused although the log holds operations.
C7_Witness ==
  /\ Undone
  /\ Pre.currentStateIndex = 0 - 1
  /\ Len(operations) > 0
  /\ emitted = <<>>

\* C8: wherever globalUndo succeeds, globalUndo then globalRedo gives back the
\* same sequence, cursor and active operations, and redoes the operation that
\* was undone; and wherever globalRedo succeeds, globalRedo then globalUndo
\* gives back the prior state and undoes the operation that was redone.
C8_UndoRedoSymmetry ==
  /\ currentStateIndex >= 0 =>
       LET u == globalUndo(This)
           r == globalRedo(u.this)
       IN /\ u.ret.success /\ r.ret.success
          /\ r.this.operations = operations
          /\ r.this.currentStateIndex = currentStateIndex
          /\ getActiveOperations(r.this) = SubSeq(operations, 1, currentStateIndex + 1)
          /\ r.ret.operation = u.ret.operation
  /\ currentStateIndex < Len(operations) - 1 =>
       LET r == globalRedo(This)
           u == globalUndo(r.this)
       IN /\ r.ret.success /\ u.ret.success
          /\ u.this.operations = operations
          /\ u.this.currentStateIndex = currentStateIndex
          /\ getActiveOperations(u.this) = SubSeq(operations, 1, currentStateIndex + 1)
          /\ u.ret.operation = r.ret.operation

\* C8 witness: the server has redone an operation, from the state an undo
\* of the present state gives, and both an undo and a redo can follow.
C8_Witness ==
  /\ Redone
  /\ last.ret[1].success
  /\ currentStateIndex = 0
  /\ Len(operations) = maxOperations
  /\ globalUndo(This).this = Pre

\* C9: a history-event of type undo undoes the entry at the cursor, whoever
\* wrote it and whoever asks: the log after it is the log before it with the
\* cursor one lower, the same for every userId in the request, and after X by
\* A, Y by B and an undo asked by A the active operations are [X].
C9_UndoIgnoresAuthor ==
  (Undone /\ Pre.currentStateIndex >= 0) =>
    /\ operations = Pre.operations
    /\ currentStateIndex = Pre.currentStateIndex - 1
    /\ operationTimestamps = Pre.operationTimestamps
    /\ userOperations = Pre.userOperations
    /\ last.ret[1].operation = At(Pre.operations, Pre.currentStateIndex)
    /\ (/\ Pre.currentStateIndex = 1
        /\ Pre.operations[1].userId = "A"
        /\ Pre.operations[2].userId = "B"
        /\ last.payload[1].userId = "A")
       => getActiveOperations(This) = <<Pre.operations[1]>>

\* C9 witness: A asks for an undo while the log is [X by A, Y by B]; Y is undone.
C9_Witness ==
  /\ Undone
  /\ Pre.currentStateIndex = 1
  /\ Pre.operations[1].userId = "A"
  /\ Pre.operations[2].userId = "B"
  /\ last.payload[1].userId = "A"
  /\ last.ret[1].operation.userId = "B"
  /\ getActiveOperations(This) = <<Pre.operations[1]>>

\* C10: after clear() the sequence has exactly one element, of type 'clear'
\* and userId 'system', and the cursor is 0; a globalUndo then succeeds and
\* leaves cursor -1 and no active operation.
C10_ClearResets ==
  last.called = "clear" =>
    /\ Len(operations) = 1
    /\ operations[1].type = "clear"
    /\ operations[1].userId = "system"
    /\ currentStateIndex = 0
    /\ LET u == globalUndo(This)
       IN /\ u.ret.success
          /\ u.this.currentStateIndex = 0 - 1
          /\ getActiveOperations(u.this) = <<>>

\* C10 witness: a clear of a full log with a redo branch.
C10_Witness ==
  /\ last.called = "clear"
  /\ Len(Pre.operations) = maxOperations
  /\ Pre.currentStateIndex < Len(Pre.operations) - 1
  /\ operations # Pre.operations

(***************************************************************************)
(* Validation of a submitted operation.                                    *)
(***************************************************************************)
\* The payload is absent, or its id, userId or type is undefined.
LacksField(payload) ==
  IF payload = <<>> THEN TRUE
  ELSE \/ payload[1].id = IdUndefined
       \/ payload[1].userId = UndefinedStr
       \/ payload[1].type = UndefinedStr

\* ... or its userId or type is the empty string.
LacksOrEmpty(payload) ==
  IF LacksField(payload) THEN TRUE
  ELSE payload[1].userId = "" \/ payload[1].type = ""

\* C11 as stated: an operation that is absent or lacks id, userId or type is
\* rejected without a change, and one that has the three is accepted.
C11_RejectsExactlyLacking ==
  last.called = "addOperation" =>
    /\ LacksField(last.payload) => (last.ret = FALSE /\ This = Pre)
    /\ ~LacksField(last.payload) => last.ret = TRUE

\* C11 amended: addOperation returns false and leaves the sequence, the
\* cursor, the per-user index and the timestamp map as they were exactly when
\* the operation is absent, its id is undefined, or its userId or type is
\* undefined or the empty string; every other operation, id 0 included, is accepted.
C11_RejectsLackingOrEmpty ==
  last.called = "addOperation" =>
    /\ LacksOrEmpty(last.payload) =>
         /\ last.ret = FALSE
         /\ operations = Pre.operations
         /\ currentStateIndex = Pre.currentStateIndex
         /\ userOperations = Pre.userOperations
         /\ operationTimestamps = Pre.operationTimestamps
    /\ ~LacksOrEmpty(last.payload) =>
         /\ last.ret = TRUE
         /\ IsSubmitted(At(operations, currentStateIndex), last.payload[1])

\* C11 witness: an operation with id 0 has been accepted into a log that holds
\* an entry already.
C11_Witness ==
  /\ last.called = "addOperation"
  /\ last.ret = TRUE
  /\ last.payload[1].id = IdNum(0)
  /\ Len(Pre.operations) > 0

(***************************************************************************)
(* What the server emits, and to whom.                                     *)
(***************************************************************************)
\* The positions in `emitted` of the messages of an event.
Sent(event) == { i \in 1..Len(emitted) : emitted[i].event = event }

\* C12: an accepted draw-path is sent as a draw-event to every connected
\* socket but the sender and acknowledged, with its id, to the sender only; a
\* rejected one makes the server emit nothing.
C12_DrawDelivery ==
  last.handler = "draw-path" =>
    IF last.ret
    THEN /\ \E i \in Sent("draw-event") :
              /\ emitted[i].to = connectedUsers \ {last.socket}
              /\ IsSubmitted(emitted[i].data, last.payload[1])
         /\ \A i \in Sent("draw-event") : last.socket \notin emitted[i].to
         /\ \E i \in Sent("operation-ack") :
              /\ emitted[i].to = {last.socket}
              /\ emitted[i].data = last.payload[1].id
         /\ \A i \in Sent("operation-ack") : emitted[i].to = {last.socket}
    ELSE emitted = <<>>

\* C12 witness: a draw of one of two connected participants was accepted.
C12_Witness ==
  /\ last.handler = "draw-path"
  /\ last.ret
  /\ connectedUsers = Sockets
  /\ \E i \in Sent("draw-event") : emitted[i].to = Sockets \ {last.socket}

\* The handler that ran last was a history-event whose undo or redo succeeded.
HistorySucceeded ==
  /\ last.handler = "history-event"
  /\ last.ret # <<>>
  /\ last.ret[1].success

\* C13: after a successful undo or redo the server emits a history-event to
\* every connected socket, the requester included, and then a canvas-state to
\* every connected socket, which carries the active prefix and the cursor this
\* undo or redo produced.
C13_HistoryBroadcast ==
  HistorySucceeded =>
    /\ Len(emitted) >= 2
    /\ emitted[1].event = "history-event"
    /\ emitted[1].to = connectedUsers
    /\ last.socket \in emitted[1].to
    /\ emitted[1].data.type = last.payload[1].type
    /\ emitted[1].data.userId = last.payload[1].userId
    /\ emitted[1].data.operation = last.ret[1].operation
    /\ emitted[2].event = "canvas-state"
    /\ emitted[2].to = connectedUsers
    /\ emitted[2].data.operations = last.ret[1].remainingOperations
    /\ emitted[2].data.operations = SubSeq(operations, 1, currentStateIndex + 1)
    /\ emitted[2].data.currentIndex = currentStateIndex
    /\ operations = Pre.operations

\* C13 witness: an undo asked by one of two connected participants succeeded
\* and left an operation active.
C13_Witness ==
  /\ HistorySucceeded
  /\ Undone
  /\ connectedUsers = Sockets
  /\ emitted[2].data.operations # <<>>

\* C14: whenever a clear-canvas message has made the server reset the log,
\* whatever its payload, a clear-canvas event went to every connected socket.
C14_ClearAlwaysDelivered ==
  last.called = "clear" =>
    \E i \in Sent("clear-canvas") : emitted[i].to = connectedUsers

\* C15 as stated: after a clear-canvas message every connected socket is sent
\* a canvas-state whose operations are the one clear operation, with cursor 0.
C15_ClearBroadcastsState ==
  last.called = "clear" =>
    \E i \in Sent("canvas-state") :
      /\ emitted[i].to = connectedUsers
      /\ emitted[i].data.operations = operations
      /\ emitted[i].data.currentIndex = 0

\* C15 amended: a clear-canvas message makes the server emit no canvas-state;
\* when it has a payload, a clear-canvas event with the requester's userId
\* goes to every connected socket and an acknowledgment to the sender, and
\* when it has none nothing is emitted; the snapshot the server would give
\* then holds the one clear operation, cursor 0.
C15_ClearBroadcastsEventOnly ==
  last.called = "clear" =>
    /\ Sent("canvas-state") = {}
    /\ last.payload = <<>> => emitted = <<>>
    /\ last.payload # <<>> =>
         /\ \E i \in Sent("clear-canvas") :
              /\ emitted[i].to = connectedUsers
              /\ emitted[i].data.userId = last.payload[1].userId
         /\ \E i \in Sent("operation-ack") : emitted[i].to = {last.socket}
    /\ getCanvasState(This, now).operations = <<last.ret>>
    /\ getCanvasState(This, now).currentIndex = 0
    /\ last.ret.type = "clear"

\* C15 witness: a clear asked by one of two connected participants, with a payload.
C15_Witness ==
  /\ last.called = "clear"
  /\ last.payload # <<>>
  /\ connectedUsers = Sockets
  /\ Len(Pre.operations) > 1
  /\ Sent("clear-canvas") # {}

\* C16: a connection and a request-state send one canvas-state, to that
\* socket only; and every canvas-state emitted holds the entries 0..cursor of
\* the log and the cursor, so that currentIndex = operations.length - 1.
C16_SnapshotIsActivePrefix ==
  /\ last.handler \in {"connection", "request-state"} =>
       /\ Cardinality(Sent("canvas-state")) = 1
       /\ \A i \in Sent("canvas-state") : emitted[i].to = {last.socket}
  /\ \A i \in Sent("canvas-state") :
       /\ emitted[i].data.operations = SubSeq(operations, 1, currentStateIndex + 1)
       /\ emitted[i].data.currentIndex = currentStateIndex
       /\ emitted[i].data.currentIndex = Len(emitted[i].data.operations) - 1

\* C16 witness: a participant asks for the state while another is connected
\* and an operation is undone.
C16_Witness ==
  /\ last.handler = "request-state"
  /\ connectedUsers = Sockets
  /\ currentStateIndex = 0
  /\ Len(operations) = maxOperations
  /\ Sent("canvas-state") # {}

\* C17: the calls of getCanvasState (and through it getActiveOperations) and
\* of getStats leave the sequence, the cursor and the per-user index as they
\* were, and the same call made again returns the same operations and cursor.
C17_ReadsChangeNothing ==
  /\ last.called = "getCanvasState" =>
       /\ operations = Pre.operations
       /\ currentStateIndex = Pre.currentStateIndex
       /\ userOperations = Pre.userOperations
       /\ getCanvasState(This, now).operations = last.ret.operations
       /\ getCanvasState(This, now).currentIndex = last.ret.currentIndex
       /\ getActiveOperations(This) = last.ret.operations
  /\ last.called = "getStats" =>
       /\ operations = Pre.operations
       /\ currentStateIndex = Pre.currentStateIndex
       /\ userOperations = Pre.userOperations
       /\ getStats(This) = last.ret

\* C17 witness: the state was read while the log held an active and an undone operation.
C17_Witness ==
  /\ last.called = "getCanvasState"
  /\ last.handler = "request-state"
  /\ last.ret.operations # <<>>
  /\ Len(operations) > Len(last.ret.operations)

\* The operation the log would get for the payload of the last addOperation
\* if no conflict were looked for: the payload, stamped when it had no time.
Unconflicted ==
  [last.payload[1] EXCEPT
     !.timestamp = IF FalsyNum(last.payload[1].timestamp)
                   THEN At(operations, currentStateIndex).timestamp
                   ELSE last.payload[1].timestamp]

\* C20: an operation with its fields is accepted whether or not an entry of
\* another user lies within the time window, and the entry stored, the sequence
\* and the cursor are those of an append that looks for no conflict.
C20_ConflictChangesNothing ==
  /\ (last.called = "addOperation" /\ ~LacksOrEmpty(last.payload)) => last.ret = TRUE
  /\ Accepted =>
       /\ At(operations, currentStateIndex) = Unconflicted
       /\ FalsyNum(last.payload[1].timestamp) => Unconflicted.timestamp \in ServerTimes
       /\ operations =
            IF Pre.currentStateIndex + 2 > maxOperations
            THEN Tail(SubSeq(Pre.operations, 1, Pre.currentStateIndex + 1)) \o <<Unconflicted>>
            ELSE SubSeq(Pre.operations, 1, Pre.currentStateIndex + 1) \o <<Unconflicted>>
       /\ currentStateIndex = Len(operations) - 1

\* C20 witness: the operation accepted came within the time window of an entry
\* of another user, with a later timestamp than that entry's.
C20_Witness ==
  /\ Accepted
  /\ detectConflict(Pre, Unconflicted) # <<>>
  /\ detectConflict(Pre, Unconflicted)[1].timestamp < Unconflicted.timestamp
  /\ At(operations, currentStateIndex) = Unconflicted

(***************************************************************************)
(* What the participants see.                                              *)
(***************************************************************************)
\* Every message sent has been handled.
Quiescent ==
  \A c \in Sockets : toServer[c] = <<>> /\ toClient[c] = <<>>

\* The strokes a canvas shows, whatever the order they were painted in.
Shown(pixels) == { pixels[i] : i \in 1..Len(pixels) }

\* The pixels a blank canvas gets by replaying the active operations in order.
Replayed ==
  forEachOperation([pixels |-> <<>>, layers |-> << <<>> >>, currentLayerIndex |-> 0],
                   getActiveOperations(This)).pixels

\* C18: when every message sent has been handled, the canvas of every
\* connected client shows what the replay of the server's active operations
\* shows.
C18_Converges ==
  Quiescent =>
    \A c \in connectedUsers : Shown(canvasManager[c].pixels) = Shown(Replayed)

\* The place of a path among the strokes painted on a canvas.
PaintedAt(pixels, path) == CHOOSE k \in 1..Len(pixels) : pixels[k] = path

\* C19: two strokes of the server log that a client's canvas both shows were
\* painted on it in the order they have in the log.
C19_SameOrder ==
  \A c \in Sockets, i, j \in 1..Len(operations) :
    LET pixels == canvasManager[c].pixels
    IN (/\ i < j
        /\ HasPath(operations[i])
        /\ HasPath(operations[j])
        /\ operations[i].path \in Shown(pixels)
        /\ operations[j].path \in Shown(pixels))
       => PaintedAt(pixels, operations[i].path) < PaintedAt(pixels, operations[j].path)

(***************************************************************************)
(* Conflict detection, arrival order, and what the log reports.            *)
(***************************************************************************)
\* The JavaScript indexes, plus one, of the entries of `log` that are of
\* another user than `new` and less than 100 ms from it.
Matching(log, new) ==
  { i \in 1..Len(log) : /\ log[i].userId # new.userId
                        /\ Abs(log[i].timestamp - new.timestamp) < 100 }

C24_StatsAgree ==
  /\ getStats(This).canUndo = globalUndo(This).ret.success
  /\ getStats(This).canRedo = globalRedo(This).ret.success
  /\ getStats(This).totalOperations = Len(operations)
  /\ getStats(This).currentIndex = currentStateIndex
  /\ last.called = "getStats" =>
       /\ last.ret.canUndo = globalUndo(This).ret.success
       /\ last.ret.canRedo = globalRedo(This).ret.success
       /\ last.ret.totalOperations = Len(operations)
       /\ last.ret.currentIndex = currentStateIndex

\* C24 witness: the statistics are asked for with the cursor at 0 in a full
\* log: an undo and a redo are both possible.
C24_Witness ==
  /\ last.called = "getStats"
  /\ currentStateIndex = 0
  /\ Len(operations) = maxOperations
  /\ last.ret.canUndo
  /\ last.ret.canRedo

\* The userIds of the per-user index.
IndexedUsers(this) == DOMAIN this.userOperations

\* C25 as stated: activeUsers counts every userId that ever had an operation
\* accepted: an accepted operation adds its userId to those counted, and no
\* other call, clear included, takes one away.
C25_CountsEverAccepted ==
  getStats(This).activeUsers =
    Cardinality(IndexedUsers(Pre) \cup (IF Accepted THEN {last.payload[1].userId} ELSE {}))

\* C25 amended: activeUsers counts the userIds that had an operation accepted
\* since the last clear (since the start when there was none): an accepted
\* operation adds its userId, a clear empties the count, and an undo, a redo,
\* an eviction or any other call leaves it.
C25_CountsSinceClear ==
  /\ getStats(This).activeUsers = Cardinality(IndexedUsers(This))
  /\ IndexedUsers(This) =
       IF last.called = "clear" THEN {}
       ELSE IF Accepted THEN IndexedUsers(Pre) \cup {last.payload[1].userId}
       ELSE IndexedUsers(Pre)
  /\ \A u \in IndexedUsers(This) : userOperations[u] # <<>>

\* C25 witness: a clear when two users had operations accepted; none is counted after it.
C25_Witness ==
  /\ last.called = "clear"
  /\ IndexedUsers(Pre) = UserIds
  /\ getStats(This).activeUsers = 0

(***************************************************************************)
(* What can take an operation out of the log, or out of its active prefix. *)
(***************************************************************************)
\* The entries of a sequence.
Entries(seq) == { seq[i] : i \in 1..Len(seq) }

\* C26: a clear leaves the clear operation alone in the sequence and a redo
\* is then refused; and no call ever puts into the sequence an entry other
\* than the operation it was given or the clear operation it made, so that
\* an undo, a redo or an append after a clear brings nothing back.
C26_ClearIsPermanent ==
  /\ last.called = "clear" =>
       /\ operations = <<last.ret>>
       /\ Entries(operations) \cap Entries(Pre.operations) \subseteq {last.ret}
       /\ ~globalRedo(This).ret.success
  /\ Accepted =>
       Entries(operations) \subseteq
         Entries(Pre.operations) \cup {At(operations, currentStateIndex)}
  /\ last.called \notin {"clear", "addOperation"} =>
       Entries(operations) \subseteq Entries(Pre.operations)
  /\ (Redone /\ last.ret[1].success) =>
       /\ last.ret[1].operation \in Entries(Pre.operations)
       /\ Entries(getActiveOperations(This)) \subseteq Entries(Pre.operations)

\* C26 witness: after a clear and its undo, a redo brings back the clear
\* operation and nothing else.
C26_Witness ==
  /\ Redone
  /\ last.ret[1].success
  /\ last.ret[1].operation.type = "clear"
  /\ operations = <<last.ret[1].operation>>
  /\ currentStateIndex = 0

\* The active prefix before the handler that ran last, and now.
ActiveBefore == getActiveOperations(Pre)
ActiveNow == getActiveOperations(This)

\* C27: a step takes an operation out of the active prefix only as an undo
\* (the entry at the cursor), as an append that evicts (the oldest entry) or
\* as a clear; every other message, whatever id it carries, leaves the active
\* prefix as it was.
C27_NoRetraction ==
  IF last.called = "clear" THEN TRUE
  ELSE IF Undone
  THEN ActiveNow = SubSeq(ActiveBefore, 1, Len(ActiveBefore) - 1)
  ELSE IF AcceptedEvicting
  THEN SubSeq(ActiveNow, 1, Len(ActiveNow) - 1) = Tail(ActiveBefore)
  ELSE IF Accepted
  THEN SubSeq(ActiveNow, 1, Len(ActiveNow) - 1) = ActiveBefore
  ELSE IF Redone
  THEN SubSeq(ActiveNow, 1, Len(ActiveBefore)) = ActiveBefore
  ELSE ActiveNow = ActiveBefore

\* C27 witness: a history-event that is neither an undo nor a redo carries the
\* id of an active operation, which stays active.
C27_Witness ==
  /\ last.handler = "history-event"
  /\ last.payload # <<>>
  /\ last.called = "none"
  /\ \E i \in 1..Len(ActiveBefore) : ActiveBefore[i].id = last.payload[1].id
  /\ ActiveNow = ActiveBefore

\* C28: the entry addOperation stores has a timestamp; it is the one the
\* client supplied, 0 included, and the server's clock only when the client
\* supplied none.
C28_KeepsSuppliedTimestamp ==
  Accepted =>
    LET stored == At(operations, currentStateIndex)
        supplied == last.payload[1].timestamp
    IN /\ stored.timestamp # UndefinedNum
       /\ IF supplied = UndefinedNum
          THEN stored.timestamp \in ServerTimes
          ELSE stored.timestamp = supplied

(***************************************************************************)
(* Messages that are not operations, and messages the server cannot read.  *)
(***************************************************************************)
\* C29: a connection, a disconnection, a draw-batch and a request-state
\* leave the operations sequence and the cursor as they were.
C29_TransportLeavesLog ==
  last.handler \in {"connection", "disconnect", "draw-batch", "request-state"} =>
    /\ operations = Pre.operations
    /\ currentStateIndex = Pre.currentStateIndex

\* C29 witness: a participant disconnects while another stays, with an
\* operation active and one undone.
C29_Witness ==
  /\ last.handler = "disconnect"
  /\ connectedUsers # {}
  /\ currentStateIndex = 0
  /\ Len(operations) = maxOperations
  /\ operations = Pre.operations

\* The payload of the history-event handled last is absent, or its type is
\* neither undo nor redo.
UnreadableHistory ==
  /\ last.handler = "history-event"
  /\ IF last.payload = <<>> THEN TRUE
     ELSE last.payload[1].type \notin {"undo", "redo"}

\* C30: every message ends applied, as a no-op or rejected: a rejected
\* draw-path and a refused undo or redo change nothing, an exception is
\* raised only inside the try block of history-event or clear-canvas, a
\* history-event without a payload or of another type changes nothing and
\* emits nothing, and the server can always handle a further message.
C30_EveryMessageEnds ==
  /\ UnreadableHistory => (This = Pre /\ emitted = <<>>)
  /\ last.threw =>
       /\ last.handler \in {"history-event", "clear-canvas"}
       /\ last.payload = <<>>
  /\ (last.called = "addOperation" /\ last.ret = FALSE) => (This = Pre /\ emitted = <<>>)
  /\ (last.called \in {"globalUndo", "globalRedo"} /\ ~last.ret[1].success) =>
       (This = Pre /\ emitted = <<>>)
  /\ ENABLED Next

\* C30 witness: a history-event without a payload arrives when the log holds
\* operations.
C30_Witness ==
  /\ last.handler = "history-event"
  /\ last.payload = <<>>
  /\ last.threw
  /\ currentStateIndex >= 0
  /\ This = Pre
  /\ emitted = <<>>

(***************************************************************************)
(* Snapshots at the clients, memory, acknowledgments and redo.             *)
(***************************************************************************)
\* The pixels a blank canvas gets by replaying the operations given in order.
ReplayOf(ops) ==
  forEachOperation([pixels |-> <<>>, layers |-> << <<>> >>, currentLayerIndex |-> 0],
                   ops).pixels

\* C31: when a client has handled a canvas-state, its canvas shows the
\* snapshot's operations replayed in order, also when the snapshot holds none.
C31_SnapshotReplayed ==
  [][\A c \in Sockets :
       OnCanvasState(c) =>
         canvasManager'[c].pixels = ReplayOf(Head(toClient[c]).data.operations)]_vars

\* C32: the entries the server holds, in the operations sequence and in the
\* lists of the per-user index together, are at most twice maxOperations:
\* every retained operation once in the sequence and once in the index.
C32_MemoryBounded ==
  Len(operations) + UserOpsCount(userOperations) <= 2 * maxOperations

\* The acknowledgments among the messages of a queue.
Acks(queue) == SelectSeq(queue, LAMBDA m : m.event = "operation-ack")

\* The operations of a sequence, as a set.
Held(ops) == { ops[i] : i \in 1..Len(ops) }

\* The operations client c has emitted and the server has not taken yet.
InFlight(c) == { toServer[c][i].data : i \in 1..Len(toServer[c]) }

\* The handler that ran last changed the log as its message asked: the draw
\* was added, the undo or redo succeeded, the clear ran.
Applied ==
  IF last.handler = "draw-path" THEN last.ret = TRUE
  ELSE IF last.handler = "history-event" THEN HistorySucceeded
  ELSE last.handler = "clear-canvas"

\* C33: an operation-ack is queued for a socket only by the server handling,
\* with success, the next operation of that very socket, and carries that
\* operation's id; every queued acknowledgment names an operation its client
\* holds pending and the server has taken; and a client moves an operation to
\* acknowledgedOperations only by handling such an acknowledgment, the
\* operation moved being one of its own with the acknowledged id.
C33_AckOnlyToSubmitter ==
  [][\A d \in Sockets :
       /\ \A i \in 1..Len(Acks(toClient[d])) :
            \E op \in Held(wsClient[d].pendingOperations) \ InFlight(d) :
              op.id = Acks(toClient[d])[i].data
       /\ Len(Acks(toClient'[d])) > Len(Acks(toClient[d])) =>
            /\ toServer[d] # <<>>
            /\ toServer'[d] = Tail(toServer[d])
            /\ Head(toServer[d]).data \in Held(wsClient[d].pendingOperations)
            /\ last'.socket = d
            /\ Applied'
            /\ Acks(toClient'[d]) =
                 Append(Acks(toClient[d]),
                        Msg("operation-ack", {d}, Head(toServer[d]).data.id))
       /\ wsClient'[d].acknowledgedOperations # wsClient[d].acknowledgedOperations =>
            /\ OnOperationAck(d)
            /\ \E op \in Held(wsClient[d].pendingOperations) \ InFlight(d) :
                 /\ op.id = Head(toClient[d]).data
                 /\ op.userId = wsClient[d].userId
                 /\ wsClient'[d].acknowledgedOperations =
                      Append(wsClient[d].acknowledgedOperations, op)
                 /\ op \notin Held(wsClient'[d].pendingOperations)]_vars

\* One client has acknowledged its operation 0 while the other's operation 0,
\* of the same id, is still on its way to the server and pending.
C33_Witness ==
  \E c, d \in Sockets :
    /\ c # d
    /\ \E op \in Held(wsClient[c].acknowledgedOperations) : op.id = IdNum(0)
    /\ \E op \in Held(wsClient[d].pendingOperations) \cap InFlight(d) : op.id = IdNum(0)
    /\ wsClient[d].acknowledgedOperations = <<>>

\* C34: with every message handled in the end, every operation a client
\* emits leaves its pendingOperations again; the gestures of a run being
\* finitely many, a time comes after which no client holds a pending
\* operation.
C34_EventuallyAcknowledged ==
  <>[](\A c \in Sockets : wsClient[c].pendingOperations = <<>>)

\* C35: when every message is handled and the server could redo, some
\* connected client can press redo: its canvas has a layer to step forward to.
C35_SomeoneCanRedo ==
  (Quiescent /\ getStats(This).canRedo) =>
    \E c \in connectedUsers : redo(canvasManager[c]).ret
====
